---- MODULE Spec2Model ----
(***************************************************************************)
(* A model of src/utils.py: clean_markdown, tokenize_lines and get_diffs,  *)
(* the word-level diff that turns two markdown documents into a list of    *)
(* {pattern, comment} records.                                             *)
(*                                                                         *)
(* A Python str is a sequence of one-character strings; a token is such a  *)
(* sequence without whitespace; a tokenized line is a sequence of tokens.  *)
(* Python indices are 0-based: At and PySlice translate them.              *)
(***************************************************************************)
EXTENDS Integers, Sequences, FiniteSets, TLC

VARIABLES
    md1, md2,        \* the two arguments of get_diffs (or of clean_markdown: md1)
    pc,              \* position in get_diffs / in the normalizer driver
    lines1, lines2,  \* tokenize_lines(md1), tokenize_lines(md2)
    idx,             \* 0-based position of the zip iterator (line 60)
    line1, line2,    \* the current line pair
    merged,          \* the retained opcodes of the current pair (lines 62-77)
    k,               \* 0-based position of the loop over merged[1:] (line 85)
    block,           \* the block being accumulated (lines 84-95)
    merged_blocks,   \* the closed blocks of the current pair
    bi,              \* 0-based position of the loop over merged_blocks (line 99)
    result,          \* the display strings (line 122)
    comments,        \* the returned list (line 123)
    err,             \* the exception raised, "" when none
    cm, once, twice  \* clean_markdown's local md and the results of one and two passes

vars == <<md1, md2, pc, lines1, lines2, idx, line1, line2, merged, k, block,
          merged_blocks, bi, result, comments, err, cm, once, twice>>

-----------------------------------------------------------------------------
(* Bounds of the inputs the specifications draw.                           *)

MaxTok == 4      \* tokens per line in Spec
MaxLines == 3    \* raw lines per document in SpecDoc
MaxFrag == 5     \* fragments per string in SpecClean

-----------------------------------------------------------------------------
(* Python sequence primitives.                                             *)

Min(a, b) == IF a <= b THEN a ELSE b
Max(a, b) == IF a >= b THEN a ELSE b

\* seq[i] for a 0-based index i that is in range.
At(seq, i) == seq[i + 1]

\* seq[lo:hi] for non-negative lo, hi: clipped to the sequence, empty when lo >= hi.
PySlice(seq, lo, hi) ==
    LET h == Min(hi, Len(seq))
    IN  IF lo >= h THEN <<>> ELSE SubSeq(seq, lo + 1, h)

\* Whether seq[i] raises no IndexError (a negative i counts from the end).
IndexOk(seq, i) == -Len(seq) <= i /\ i < Len(seq)

RECURSIVE Concat(_)
\* "".join(parts)
Concat(parts) ==
    IF parts = <<>> THEN <<>> ELSE Head(parts) \o Concat(Tail(parts))

RECURSIVE Join(_, _)
\* sep.join(parts)
Join(sep, parts) ==
    IF parts = <<>> THEN <<>>
    ELSE IF Len(parts) = 1 THEN Head(parts)
    ELSE Head(parts) \o sep \o Join(sep, Tail(parts))

-----------------------------------------------------------------------------
(* clean_markdown (lines 13-28).                                           *)

\* The character class of line 24: * _ ~ # > - and the backquote, which a TLA+
\* string cannot hold and which is written "backquote" here.
Markers == {"*", "_", "~", "#", ">", "backquote", "-"}

\* re.sub of the marker class by "", line 24.
StripMarkers(md) == SelectSeq(md, LAMBDA c : c \notin Markers)

\* The least index >= from (1-based) at which s holds c, 0 when there is none.
FirstAt(s, c, from) ==
    LET hits == {i \in from..Len(s) : s[i] = c}
    IN  IF hits = {} THEN 0 ELSE CHOOSE i \in hits : \A j \in hits : i <= j

\* The match of \[([^\]]+)\]\([^)]+\) starting at 1-based position p, as
\* [close |-> index of "]", end |-> index of the final ")"], end = 0 when the
\* pattern does not match at p. Both classes are negated single characters, so
\* the greedy runs stop at the first "]" and the first ")" and backtracking
\* finds nothing else.
LinkMatch(s, p) ==
    LET q == IF p <= Len(s) /\ s[p] = "[" THEN FirstAt(s, "]", p + 1) ELSE 0
        r == IF q >= p + 2 /\ q + 1 <= Len(s) /\ s[q + 1] = "("
             THEN FirstAt(s, ")", q + 2) ELSE 0
    IN  [close |-> q, end |-> IF q >= p + 2 /\ r >= q + 3 THEN r ELSE 0]

RECURSIVE SubLinksFrom(_, _)
\* re.sub scanning from position p: leftmost, non-overlapping matches, each
\* replaced by its group 1.
SubLinksFrom(s, p) ==
    IF p > Len(s) THEN <<>>
    ELSE LET m == LinkMatch(s, p)
         IN  IF m.end > 0
             THEN SubSeq(s, p + 1, m.close - 1) \o SubLinksFrom(s, m.end + 1)
             ELSE <<s[p]>> \o SubLinksFrom(s, p + 1)

\* re.sub(r"\[([^\]]+)\]\([^)]+\)", r"\1", md), line 27.
SubLinks(md) == SubLinksFrom(md, 1)

clean_markdown(md) == SubLinks(StripMarkers(md))

-----------------------------------------------------------------------------
(* tokenize_lines (lines 31-42).                                           *)

\* The line boundaries of str.splitlines and the whitespace of str.strip and
\* str.split that a TLA+ string can name.
LineBreaks == {"\n", "\r", "\f"}
Whitespace == {" ", "\t", "\n", "\r", "\f"}

RECURSIVE SplitLinesFrom(_, _, _)
SplitLinesFrom(s, p, cur) ==
    IF p > Len(s) THEN (IF cur = <<>> THEN <<>> ELSE <<cur>>)
    ELSE IF s[p] = "\r" /\ p < Len(s) /\ s[p + 1] = "\n"
         THEN <<cur>> \o SplitLinesFrom(s, p + 2, <<>>)
    ELSE IF s[p] \in LineBreaks
         THEN <<cur>> \o SplitLinesFrom(s, p + 1, <<>>)
    ELSE SplitLinesFrom(s, p + 1, Append(cur, s[p]))

\* md.splitlines(), line 40: no line for the empty rest after a final break.
splitlines(s) == SplitLinesFrom(s, 1, <<>>)

RECURSIVE LStrip(_)
LStrip(s) ==
    IF s # <<>> /\ Head(s) \in Whitespace THEN LStrip(Tail(s)) ELSE s

RECURSIVE RStrip(_)
RStrip(s) ==
    IF s # <<>> /\ s[Len(s)] \in Whitespace
    THEN RStrip(SubSeq(s, 1, Len(s) - 1)) ELSE s

\* str.strip()
strip(s) == RStrip(LStrip(s))

RECURSIVE SplitFrom(_, _, _)
SplitFrom(s, p, cur) ==
    IF p > Len(s) THEN (IF cur = <<>> THEN <<>> ELSE <<cur>>)
    ELSE IF s[p] \in Whitespace
         THEN (IF cur = <<>> THEN <<>> ELSE <<cur>>) \o SplitFrom(s, p + 1, <<>>)
    ELSE SplitFrom(s, p + 1, Append(cur, s[p]))

\* str.split(): the maximal runs of non-whitespace.
split(s) == SplitFrom(s, 1, <<>>)

\* A variant that keeps every line, a blank one as a line without tokens.
KeepEveryLine(line) == TRUE

\* The filter "if line.strip()" of line 41.
KeepLine(line) == strip(line) # <<>>

\* clean_markdown(line).strip().split(), line 41.
TokenizeLine(line) == split(strip(clean_markdown(line)))

RECURSIVE TokenizeAll(_)
TokenizeAll(lines) ==
    IF lines = <<>> THEN <<>>
    ELSE (IF KeepLine(Head(lines)) THEN <<TokenizeLine(Head(lines))>> ELSE <<>>)
         \o TokenizeAll(Tail(lines))

tokenize_lines(md) == TokenizeAll(splitlines(md))

-----------------------------------------------------------------------------
(* difflib.SequenceMatcher(None, line1, line2).get_opcodes(), as called at *)
(* lines 61 and 64: isjunk is None, autojunk is on.                        *)

\* bpopular of __chain_b: with autojunk, in a b of 200 elements or more, the
\* elements that occur more than len(b) // 100 + 1 times.
Popular(b) ==
    IF Len(b) >= 200
    THEN {e \in {b[j] : j \in 1..Len(b)} :
            Cardinality({j \in 1..Len(b) : b[j] = e}) > (Len(b) \div 100) + 1}
    ELSE {}

RECURSIVE RunLen(_, _, _, _, _, _)
\* newj2len[j] in row i of find_longest_match: the length of the match of
\* elements indexed by b2j that ends with a[i] and b[j] inside the window.
RunLen(a, b, alo, blo, i, j) ==
    IF i < alo \/ j < blo \/ At(a, i) # At(b, j) \/ At(b, j) \in Popular(b)
    THEN 0
    ELSE 1 + RunLen(a, b, alo, blo, i - 1, j - 1)

RECURSIVE ExtendLeft(_, _, _, _, _)
\* The first while loop after the scan: grow the match downwards over equal
\* elements (none is junk, isjunk being None).
ExtendLeft(a, b, alo, blo, m) ==
    IF m.i > alo /\ m.j > blo /\ At(a, m.i - 1) = At(b, m.j - 1)
    THEN ExtendLeft(a, b, alo, blo, [i |-> m.i - 1, j |-> m.j - 1, size |-> m.size + 1])
    ELSE m

\* A variant of the second while loop that grows the match without comparing.
ExtendRightNoCompare(a, b, ahi, bhi, m) ==
    [m EXCEPT !.size = Min(ahi - m.i, bhi - m.j)]

RECURSIVE ExtendRight(_, _, _, _, _)
\* The second while loop: grow the match upwards over equal elements.
ExtendRight(a, b, ahi, bhi, m) ==
    IF m.i + m.size < ahi /\ m.j + m.size < bhi
       /\ At(a, m.i + m.size) = At(b, m.j + m.size)
    THEN ExtendRight(a, b, ahi, bhi, [m EXCEPT !.size = m.size + 1])
    ELSE m

\* The scan of find_longest_match: i ascending, j ascending, the best replaced
\* only by a strictly longer run, so the winner is the first end position, in
\* (i, j) order, of a run of the greatest length.
BestRun(a, b, alo, ahi, blo, bhi) ==
    LET cells == (alo..(ahi - 1)) \X (blo..(bhi - 1))
        lens == {RunLen(a, b, alo, blo, e[1], e[2]) : e \in cells} \cup {0}
        bestsize == CHOOSE n \in lens : \A m \in lens : m <= n
        top == {e \in cells : RunLen(a, b, alo, blo, e[1], e[2]) = bestsize}
        before(e, f) == e[1] < f[1] \/ (e[1] = f[1] /\ e[2] <= f[2])
    IN  IF bestsize = 0 THEN [i |-> alo, j |-> blo, size |-> 0]
        ELSE LET e == CHOOSE x \in top : \A y \in top : before(x, y)
             IN  [i |-> e[1] - bestsize + 1, j |-> e[2] - bestsize + 1,
                  size |-> bestsize]

\* find_longest_match(alo, ahi, blo, bhi): the four while loops follow the scan;
\* the last two extend over junk, and there is none.
find_longest_match(a, b, alo, ahi, blo, bhi) ==
    ExtendRight(a, b, ahi, bhi,
        ExtendLeft(a, b, alo, blo, BestRun(a, b, alo, ahi, blo, bhi)))

RECURSIVE MatchesIn(_, _, _, _, _, _)
\* The work queue of get_matching_blocks followed by its sort: the blocks left
\* of the longest match come before it, the blocks right of it after it.
MatchesIn(a, b, alo, ahi, blo, bhi) ==
    LET m == find_longest_match(a, b, alo, ahi, blo, bhi)
    IN  IF m.size = 0 THEN <<>>
        ELSE (IF alo < m.i /\ blo < m.j
              THEN MatchesIn(a, b, alo, m.i, blo, m.j) ELSE <<>>)
             \o <<m>>
             \o (IF m.i + m.size < ahi /\ m.j + m.size < bhi
                 THEN MatchesIn(a, b, m.i + m.size, ahi, m.j + m.size, bhi)
                 ELSE <<>>)

RECURSIVE Collapse(_, _)
\* The collapsing loop of get_matching_blocks: adjacent blocks become one.
Collapse(cur, rest) ==
    IF rest = <<>> THEN (IF cur.size > 0 THEN <<cur>> ELSE <<>>)
    ELSE LET n == Head(rest)
         IN  IF cur.i + cur.size = n.i /\ cur.j + cur.size = n.j
             THEN Collapse([cur EXCEPT !.size = cur.size + n.size], Tail(rest))
             ELSE (IF cur.size > 0 THEN <<cur>> ELSE <<>>) \o Collapse(n, Tail(rest))

\* get_matching_blocks(): the collapsed blocks and the sentinel (la, lb, 0).
get_matching_blocks(a, b) ==
    Collapse([i |-> 0, j |-> 0, size |-> 0], MatchesIn(a, b, 0, Len(a), 0, Len(b)))
    \o <<[i |-> Len(a), j |-> Len(b), size |-> 0]>>

RECURSIVE OpcodesFrom(_, _, _)
\* The loop of get_opcodes over the matching blocks, (i, j) being where the
\* previous block ended.
OpcodesFrom(blocks, i, j) ==
    IF blocks = <<>> THEN <<>>
    ELSE LET m == Head(blocks)
             tag == IF i < m.i /\ j < m.j THEN "replace"
                    ELSE IF i < m.i THEN "delete"
                    ELSE IF j < m.j THEN "insert"
                    ELSE ""
         IN  (IF tag # ""
              THEN <<[tag |-> tag, i1 |-> i, i2 |-> m.i, j1 |-> j, j2 |-> m.j]>>
              ELSE <<>>)
             \o (IF m.size > 0
                 THEN <<[tag |-> "equal", i1 |-> m.i, i2 |-> m.i + m.size,
                         j1 |-> m.j, j2 |-> m.j + m.size]>>
                 ELSE <<>>)
             \o OpcodesFrom(Tail(blocks), m.i + m.size, m.j + m.size)

get_opcodes(a, b) == OpcodesFrom(get_matching_blocks(a, b), 0, 0)

-----------------------------------------------------------------------------
(* get_diffs (lines 45-130): the steps of its loops as operators.          *)

NoBlock == [tag |-> "", i1 |-> 0, i2 |-> 0, j1 |-> 0, j2 |-> 0, old |-> <<>>, new |-> <<>>]

\* A variant that pads the shorter list with empty lines (zip_longest).
ZipLongest(l1s, l2s) ==
    [i \in 1..Max(Len(l1s), Len(l2s)) |->
        <<IF i <= Len(l1s) THEN l1s[i] ELSE <<>>, IF i <= Len(l2s) THEN l2s[i] ELSE <<>>>>]

\* zip(lines1, lines2), line 60: the pairs it yields, as many as the shorter list.
Zip(l1s, l2s) == [i \in 1..Min(Len(l1s), Len(l2s)) |-> <<l1s[i], l2s[i]>>]

\* Lines 67-77: the dict appended for one opcode.
EditOp(op, l1, l2) ==
    [tag |-> op.tag, i1 |-> op.i1, i2 |-> op.i2, j1 |-> op.j1, j2 |-> op.j2,
     old |-> PySlice(l1, op.i1, op.i2), new |-> PySlice(l2, op.j1, op.j2)]

\* A variant that keeps the opcodes tagged equal too.
RetainAll(op) == TRUE

\* Lines 65-66: an opcode tagged equal is skipped.
Retained(op) == op.tag # "equal"

RECURSIVE EditOpsOf(_, _, _)
EditOpsOf(ops, l1, l2) ==
    IF ops = <<>> THEN <<>>
    ELSE (IF Retained(Head(ops)) THEN <<EditOp(Head(ops), l1, l2)>> ELSE <<>>)
         \o EditOpsOf(Tail(ops), l1, l2)

\* Lines 61-77: merged when the loop over the opcodes ends.
EditOps(l1, l2) == EditOpsOf(get_opcodes(l1, l2), l1, l2)

\* A variant without the early continue of lines 79-80.
NeverSkip(m) == FALSE

\* Line 79: "if not merged".
NotMerged(m) == m = <<>>

\* A variant that merges across two unchanged tokens.
CanMergeWide(b, m) == m.i1 <= b.i2 + 2 /\ m.j1 <= b.j2 + 2

\* Line 86: the merge condition.
CanMerge(b, m) == m.i1 <= b.i2 + 1 /\ m.j1 <= b.j2 + 1

\* A variant that extends the token lists and leaves the bounds as they were.
MergeKeepBounds(b, m, l1, l2) ==
    [b EXCEPT !.old = b.old \o PySlice(l1, b.i1 + 1, m.i2),
              !.new = b.new \o PySlice(l2, b.j1 + 1, m.j2)]

\* Lines 89-92: m merged into block. The bounds are updated first; the token
\* lists are extended by the slice from block's own start + 1 to m's end.
MergeInto(b, m, l1, l2) ==
    [b EXCEPT !.i2 = Max(b.i2, m.i2),
              !.j2 = Max(b.j2, m.j2),
              !.old = b.old \o PySlice(l1, b.i1 + 1, m.i2),
              !.new = b.new \o PySlice(l2, b.j1 + 1, m.j2)]

RECURSIVE MergeLoop(_, _, _, _)
\* Lines 85-97 from block b on, rest being what is left of merged[1:].
MergeLoop(b, rest, l1, l2) ==
    IF rest = <<>> THEN <<b>>
    ELSE IF CanMerge(b, Head(rest))
         THEN MergeLoop(MergeInto(b, Head(rest), l1, l2), Tail(rest), l1, l2)
         ELSE <<b>> \o MergeLoop(Head(rest), Tail(rest), l1, l2)

\* Lines 101-102: the guards of the two context reads.
HasLeft(b) == b.i1 > 0
HasRight(b, l1) == b.i2 < Len(l1)

\* line1[i] as Python reads it when IndexOk(line1, i).
PyIndex(seq, i) == IF i < 0 THEN seq[Len(seq) + i + 1] ELSE seq[i + 1]

left_context(b, l1) == IF HasLeft(b) THEN PyIndex(l1, b.i1 - 1) ELSE <<>>
right_context(b, l1) == IF HasRight(b, l1) THEN PyIndex(l1, b.i2) ELSE <<>>

\* Whether lines 101-102 raise no IndexError for block b.
ContextReadsOk(b, l1) ==
    /\ HasLeft(b) => IndexOk(l1, b.i1 - 1)
    /\ HasRight(b, l1) => IndexOk(l1, b.i2)

Space == <<" ">>
Stars == <<"*", "*">>
\* The arrow of line 112, a character outside ASCII, is written "arrow".
Arrow == <<" ", "arrow", " ">>
ConsiderChanging ==
    <<"C", "o", "n", "s", "i", "d", "e", "r", " ",
      "c", "h", "a", "n", "g", "i", "n", "g", " ", "'">>
QuoteToQuote == <<"'", " ", "t", "o", " ", "'">>
Quote == <<"'">>

\* Lines 104-120: pattern_line.
pattern_line(b, l1) ==
    (IF left_context(b, l1) # <<>> THEN left_context(b, l1) \o Space ELSE <<>>)
    \o Join(Space, b.old)
    \o (IF right_context(b, l1) # <<>> THEN Space \o right_context(b, l1) ELSE <<>>)

\* Lines 104-120: change_line.
change_line(b, l1) ==
    (IF left_context(b, l1) # <<>> THEN left_context(b, l1) \o Space ELSE <<>>)
    \o Stars \o Join(Space, b.old) \o Stars \o Arrow
    \o Stars \o Join(Space, b.new) \o Stars
    \o (IF right_context(b, l1) # <<>> THEN Space \o right_context(b, l1) ELSE <<>>)

\* Lines 114-116: comment_line.
comment_line(b) ==
    ConsiderChanging \o Join(Space, b.old) \o QuoteToQuote \o Join(Space, b.new) \o Quote

\* The characters re.escape puts a backslash before (those a TLA+ string can name).
EscapeSpecial ==
    {"(", ")", "[", "]", "{", "}", "?", "*", "+", "-", "|", "^", "$", "\\",
     ".", "&", "~", "#", " ", "\t", "\n", "\r", "\f"}

RECURSIVE re_escape(_)
re_escape(s) ==
    IF s = <<>> THEN <<>>
    ELSE (IF Head(s) \in EscapeSpecial THEN <<"\\", Head(s)>> ELSE <<Head(s)>>)
         \o re_escape(Tail(s))

\* Lines 123-128: the Comment appended for block b.
CommentOf(b, l1) ==
    [pattern |-> re_escape(pattern_line(b, l1)), comment |-> comment_line(b)]

RECURSIVE CommentsOf(_, _)
CommentsOf(blocks, l1) ==
    IF blocks = <<>> THEN <<>>
    ELSE <<CommentOf(Head(blocks), l1)>> \o CommentsOf(Tail(blocks), l1)

\* Lines 61-128 for one pair of tokenized lines.
LineComments(l1, l2) ==
    LET m == EditOps(l1, l2)
    IN  IF NotMerged(m) THEN <<>>
        ELSE CommentsOf(MergeLoop(Head(m), Tail(m), l1, l2), l1)

RECURSIVE PairsComments(_)
\* The loop of line 60 over the pairs.
PairsComments(pairs) ==
    IF pairs = <<>> THEN <<>>
    ELSE LineComments(Head(pairs)[1], Head(pairs)[2]) \o PairsComments(Tail(pairs))

\* get_diffs(md1, md2) as a function of its arguments, for inputs on which no
\* step raises.
get_diffs(a, b) == PairsComments(Zip(tokenize_lines(a), tokenize_lines(b)))

-----------------------------------------------------------------------------
(* The inputs the specifications draw.                                     *)

\* All sequences over S of length at most n.
SeqsUpTo(S, n) == UNION {[1..m -> S] : m \in 0..n}

Tokens == {<<"a">>, <<"b">>, <<"c">>}

\* A one-line document: a markdown heading of the given tokens ("# a b c").
Heading(toks) == <<"#", " ">> \o Join(Space, toks)

\* get_diffs compares tokens only for equality, so renaming the tokens of both
\* lines alike changes no index of any opcode. The original line is therefore
\* drawn with its tokens in order of first appearance (a, then b, then c); the
\* updated line is any sequence.
FirstUse(toks) ==
    \A p \in 1..Len(toks) :
        /\ toks[p] = <<"b">> => \E q \in 1..(p - 1) : toks[q] = <<"a">>
        /\ toks[p] = <<"c">> => \E q \in 1..(p - 1) : toks[q] = <<"b">>

\* The documents of Spec: the empty string and the one-line headings, the
\* heading without tokens ("# ") included.
LineDocs == {<<>>} \cup {Heading(t) : t \in SeqsUpTo(Tokens, MaxTok)}
LineDocs1 == {<<>>} \cup {Heading(t) : t \in {u \in SeqsUpTo(Tokens, MaxTok) : FirstUse(u)}}

\* The raw lines of SpecDoc. Both documents may hold "c b c b b c"; the
\* original may hold the empty line and "*a* b a  [b](u) b a", the updated
\* document a line of a space and a tab and "a b a b b a".
LineC == <<"c", " ", "b", " ", "c", " ", "b", " ", "b", " ", "c">>
LineAMarked ==
    <<"*", "a", "*", " ", "b", " ", "a", " ", " ",
      "[", "b", "]", "(", "u", ")", " ", "b", " ", "a">>
LineAPlain == <<"a", " ", "b", " ", "a", " ", "b", " ", "b", " ", "a">>
RawLines1 == {<<>>, LineAMarked, LineC}
RawLines2 == {<<" ", "\t">>, LineAPlain, LineC}

\* The documents of SpecDoc: up to MaxLines raw lines, each ended by "\n" but
\* the last.
Docs1 == {Join(<<"\n">>, ls) : ls \in SeqsUpTo(RawLines1, MaxLines)}
Docs2 == {Join(<<"\n">>, ls) : ls \in SeqsUpTo(RawLines2, MaxLines)}

\* The strings of SpecClean: up to MaxFrag fragments, one after the other.
Fragments == { <<"a">>, <<"*">>, <<"[">>, <<"]">>, <<"[", "a", "]">>, <<"(", "a", ")">> }
CleanInputs == {Concat(fs) : fs \in SeqsUpTo(Fragments, MaxFrag)}

-----------------------------------------------------------------------------
(* The state machine of get_diffs.                                         *)

Locals ==
    /\ lines1 = <<>> /\ lines2 = <<>> /\ idx = 0
    /\ line1 = <<>> /\ line2 = <<>>
    /\ merged = <<>> /\ k = 0 /\ block = NoBlock /\ merged_blocks = <<>> /\ bi = 0
    /\ result = <<>> /\ comments = <<>> /\ err = ""
    /\ cm = <<>> /\ once = <<>> /\ twice = <<>>

Init ==
    /\ md1 \in LineDocs1 /\ md2 \in LineDocs
    /\ pc = "tokenize"
    /\ Locals

InitDoc ==
    /\ md1 \in Docs1 /\ md2 \in Docs2
    /\ pc = "tokenize"
    /\ Locals

\* Lines 55-58.
Tokenize ==
    /\ pc = "tokenize"
    /\ lines1' = tokenize_lines(md1)
    /\ lines2' = tokenize_lines(md2)
    /\ result' = <<>>
    /\ comments' = <<>>
    /\ pc' = "zip"
    /\ UNCHANGED <<md1, md2, idx, line1, line2, merged, k, block, merged_blocks,
                   bi, err, cm, once, twice>>

\* Line 60: zip yields the next pair.
ZipNext ==
    /\ pc = "zip"
    /\ idx < Len(Zip(lines1, lines2))
    /\ line1' = At(Zip(lines1, lines2), idx)[1]
    /\ line2' = At(Zip(lines1, lines2), idx)[2]
    /\ idx' = idx + 1
    /\ pc' = "opcodes"
    /\ UNCHANGED <<md1, md2, lines1, lines2, merged, k, block, merged_blocks,
                   bi, result, comments, err, cm, once, twice>>

\* Lines 60 and 130: zip is exhausted, comments is returned.
Return ==
    /\ pc = "zip"
    /\ idx >= Len(Zip(lines1, lines2))
    /\ pc' = "done"
    /\ UNCHANGED <<md1, md2, lines1, lines2, idx, line1, line2, merged, k, block,
                   merged_blocks, bi, result, comments, err, cm, once, twice>>

\* Lines 61-77.
CollectOps ==
    /\ pc = "opcodes"
    /\ merged' = EditOps(line1, line2)
    /\ pc' = "check"
    /\ UNCHANGED <<md1, md2, lines1, lines2, idx, line1, line2, k, block,
                   merged_blocks, bi, result, comments, err, cm, once, twice>>

\* Lines 79-80: no retained opcode, continue with the next pair.
SkipUnchanged ==
    /\ pc = "check"
    /\ NotMerged(merged)
    /\ pc' = "zip"
    /\ UNCHANGED <<md1, md2, lines1, lines2, idx, line1, line2, merged, k, block,
                   merged_blocks, bi, result, comments, err, cm, once, twice>>

\* Lines 83-84: merged[0] raises IndexError on an empty list.
FirstBlock ==
    /\ pc = "check"
    /\ ~NotMerged(merged)
    /\ IF merged = <<>>
       THEN /\ err' = "IndexError"
            /\ pc' = "raised"
            /\ UNCHANGED <<block, merged_blocks, k>>
       ELSE /\ block' = At(merged, 0)
            /\ merged_blocks' = <<>>
            /\ k' = 1
            /\ pc' = "merge"
            /\ UNCHANGED err
    /\ UNCHANGED <<md1, md2, lines1, lines2, idx, line1, line2, merged,
                   bi, result, comments, cm, once, twice>>

\* Lines 85-92: the next opcode is merged into block.
MergeStep ==
    /\ pc = "merge"
    /\ k < Len(merged)
    /\ CanMerge(block, At(merged, k))
    /\ block' = MergeInto(block, At(merged, k), line1, line2)
    /\ k' = k + 1
    /\ UNCHANGED <<md1, md2, pc, lines1, lines2, idx, line1, line2, merged,
                   merged_blocks, bi, result, comments, err, cm, once, twice>>

\* Lines 85-86 and 93-95: block is closed and the next opcode starts a new one.
CloseBlock ==
    /\ pc = "merge"
    /\ k < Len(merged)
    /\ ~CanMerge(block, At(merged, k))
    /\ merged_blocks' = Append(merged_blocks, block)
    /\ block' = At(merged, k)
    /\ k' = k + 1
    /\ UNCHANGED <<md1, md2, pc, lines1, lines2, idx, line1, line2, merged,
                   bi, result, comments, err, cm, once, twice>>

\* Line 97: the loop is over, the last block is closed.
LastBlock ==
    /\ pc = "merge"
    /\ k >= Len(merged)
    /\ merged_blocks' = Append(merged_blocks, block)
    /\ bi' = 0
    /\ pc' = "render"
    /\ UNCHANGED <<md1, md2, lines1, lines2, idx, line1, line2, merged, k, block,
                   result, comments, err, cm, once, twice>>

\* Lines 99-128 for one block: the context reads raise IndexError out of range.
Render ==
    /\ pc = "render"
    /\ bi < Len(merged_blocks)
    /\ LET b == At(merged_blocks, bi)
       IN  IF ~ContextReadsOk(b, line1)
           THEN /\ err' = "IndexError"
                /\ pc' = "raised"
                /\ UNCHANGED <<result, comments, bi>>
           ELSE /\ result' = Append(result, change_line(b, line1))
                /\ comments' = Append(comments, CommentOf(b, line1))
                /\ bi' = bi + 1
                /\ UNCHANGED <<err, pc>>
    /\ UNCHANGED <<md1, md2, lines1, lines2, idx, line1, line2, merged, k, block,
                   merged_blocks, cm, once, twice>>

\* Line 99: every block is rendered, back to the loop of line 60.
EndRender ==
    /\ pc = "render"
    /\ bi >= Len(merged_blocks)
    /\ pc' = "zip"
    /\ UNCHANGED <<md1, md2, lines1, lines2, idx, line1, line2, merged, k, block,
                   merged_blocks, bi, result, comments, err, cm, once, twice>>

Next ==
    \/ Tokenize
    \/ ZipNext
    \/ Return
    \/ CollectOps
    \/ SkipUnchanged
    \/ FirstBlock
    \/ MergeStep
    \/ CloseBlock
    \/ LastBlock
    \/ Render
    \/ EndRender

Spec == Init /\ [][Next]_vars

SpecDoc == InitDoc /\ [][Next]_vars

\* Both families of inputs.
InitAll == Init \/ InitDoc

SpecAll == InitAll /\ [][Next]_vars

-----------------------------------------------------------------------------
(* clean_markdown applied twice: clean_markdown(clean_markdown(md1)).      *)

InitClean ==
    /\ md1 \in CleanInputs /\ md2 = <<>>
    /\ pc = "strip1"
    /\ lines1 = <<>> /\ lines2 = <<>> /\ idx = 0
    /\ line1 = <<>> /\ line2 = <<>>
    /\ merged = <<>> /\ k = 0 /\ block = NoBlock /\ merged_blocks = <<>> /\ bi = 0
    /\ result = <<>> /\ comments = <<>> /\ err = ""
    /\ cm = md1 /\ once = <<>> /\ twice = <<>>

\* Line 24.
CleanStrip ==
    /\ pc \in {"strip1", "strip2"}
    /\ cm' = StripMarkers(cm)
    /\ pc' = IF pc = "strip1" THEN "links1" ELSE "links2"
    /\ UNCHANGED <<md1, md2, lines1, lines2, idx, line1, line2, merged, k, block,
                   merged_blocks, bi, result, comments, err, once, twice>>

\* Lines 27-28: the first call returns into the second, the second ends.
CleanLinks ==
    /\ pc \in {"links1", "links2"}
    /\ cm' = SubLinks(cm)
    /\ IF pc = "links1"
       THEN once' = SubLinks(cm) /\ pc' = "strip2" /\ UNCHANGED twice
       ELSE twice' = SubLinks(cm) /\ pc' = "cleaned" /\ UNCHANGED once
    /\ UNCHANGED <<md1, md2, lines1, lines2, idx, line1, line2, merged, k, block,
                   merged_blocks, bi, result, comments, err>>

NextClean == CleanStrip \/ CleanLinks

SpecClean == InitClean /\ [][NextClean]_vars

-----------------------------------------------------------------------------
(* Documents seen as lines, for the claims that compare two runs.          *)

\* A line that is empty or holds whitespace only.
IsBlank(line) == \A p \in 1..Len(line) : line[p] \in Whitespace

\* The number of non-blank lines among the first n lines.
NonBlankUpTo(lines, n) == Cardinality({p \in 1..n : ~IsBlank(lines[p])})

NonBlankCount(md) == NonBlankUpTo(splitlines(md), Len(splitlines(md)))

\* md without its blank lines.
DropBlankLines(md) ==
    Join(<<"\n">>, SelectSeq(splitlines(md), LAMBDA l : ~IsBlank(l)))

RECURSIVE KeepFirst(_, _)
\* The lines without the non-blank lines at position n (among the non-blank
\* lines, 0-based) and beyond; the blank lines stay.
KeepFirst(lines, n) ==
    IF lines = <<>> THEN <<>>
    ELSE IF IsBlank(Head(lines)) THEN <<Head(lines)>> \o KeepFirst(Tail(lines), n)
    ELSE IF n > 0 THEN <<Head(lines)>> \o KeepFirst(Tail(lines), n - 1)
    ELSE KeepFirst(Tail(lines), n)

\* Join of lines that keeps a trailing empty line apart from no line at all.
JoinLines(lines) ==
    IF lines # <<>> /\ lines[Len(lines)] = <<>>
    THEN Join(<<"\n">>, lines) \o <<"\n">>
    ELSE Join(<<"\n">>, lines)

TruncateDoc(md, n) == JoinLines(KeepFirst(splitlines(md), n))

-----------------------------------------------------------------------------
(* C1: get_diffs(D, D) is empty, and a line pair whose token sequences are *)
(* identical has no retained opcode, is never merged or rendered and adds  *)
(* no comment, also when the raw lines differ in markers or spacing.       *)
C1_UnchangedNoComment ==
    /\ (pc = "done" /\ md1 = md2) => comments = <<>>
    /\ (pc = "check" /\ line1 = line2) => merged = <<>>
    /\ pc \in {"merge", "render"} => line1 # line2
    /\ (pc = "done" /\ \A p \in 1..Len(Zip(lines1, lines2)) : lines1[p] = lines2[p])
          => comments = <<>>

\* The marked line against the plain line of the same tokens: nothing is said.
C1_Witness ==
    /\ pc = "done"
    /\ md1 = LineAMarked /\ md2 = LineAPlain
    /\ lines1 = lines2 /\ lines1 # <<>>
    /\ comments = <<>>

(* C5: with m and n non-blank lines, exactly the pairs 0 .. min(m, n) - 1  *)
(* are compared, nothing is raised, and the result is the result for the   *)
(* documents without their non-blank lines at position min(m, n) and on.   *)
C5_TruncateToShorter ==
    pc = "done" =>
        LET n == Min(NonBlankCount(md1), NonBlankCount(md2))
        IN  /\ idx = n
            /\ err = ""
            /\ comments = get_diffs(TruncateDoc(md1, n), TruncateDoc(md2, n))

\* Three non-blank lines against two, the first two pairs being remarked on.
C5_Witness ==
    /\ pc = "done"
    /\ Len(lines1) = 3 /\ Len(lines2) = 2
    /\ idx = 2
    /\ Len(comments) >= 2

(* C6: the result depends on the non-blank lines only: it is the result    *)
(* for the two documents with every blank line removed, and tokenize_lines *)
(* yields one entry per non-blank line.                                    *)
C6_BlankLineNeutral ==
    /\ pc = "done" =>
          /\ Len(lines1) = NonBlankCount(md1)
          /\ Len(lines2) = NonBlankCount(md2)
          /\ lines1 = tokenize_lines(DropBlankLines(md1))
          /\ lines2 = tokenize_lines(DropBlankLines(md2))
    /\ pc = "done" =>
          comments = get_diffs(DropBlankLines(md1), DropBlankLines(md2))

\* A blank line between two non-blank lines of the original, none in the
\* updated document, and a comment on the second pair.
C6_Witness ==
    /\ pc = "done"
    /\ md1 = LineC \o <<"\n", "\n">> \o LineAMarked
    /\ md2 = LineC \o <<"\n">> \o LineC
    /\ comments # <<>>

-----------------------------------------------------------------------------
(* The blocks of the current line pair.                                    *)

\* The blocks built so far while the merge loop runs, all of them after it.
BlocksSoFar == IF pc = "merge" THEN Append(merged_blocks, block) ELSE merged_blocks

\* The comment that belongs to the n-th block (1-based) of the current pair,
\* the last bi comments being those of the blocks rendered so far.
CommentOfBlock(n) == comments[Len(comments) - bi + n]

RECURSIVE Unescape(_)
\* The text an escaped pattern matches: each backslash quotes the next character.
Unescape(s) ==
    IF s = <<>> THEN <<>>
    ELSE IF Head(s) = "\\" /\ Len(s) >= 2 THEN <<s[2]>> \o Unescape(SubSeq(s, 3, Len(s)))
    ELSE <<Head(s)>> \o Unescape(Tail(s))

(* C2: every block, after any number of merges, holds line1[i1:i2] as old  *)
(* and line2[j1:j2] as new, and the comment text is built from these.      *)
C2_BlockTokensAreSlices ==
    /\ pc \in {"merge", "render"} =>
          \A n \in 1..Len(BlocksSoFar) :
              LET b == BlocksSoFar[n]
              IN  /\ b.old = PySlice(line1, b.i1, b.i2)
                  /\ b.new = PySlice(line2, b.j1, b.j2)
    /\ pc = "render" =>
          \A n \in 1..bi :
              LET b == merged_blocks[n]
              IN  CommentOfBlock(n).comment =
                      ConsiderChanging \o Join(Space, PySlice(line1, b.i1, b.i2))
                      \o QuoteToQuote \o Join(Space, PySlice(line2, b.j1, b.j2)) \o Quote

\* The retained opcodes are two replacements of one token by one token.
TwoSingleReplacements ==
    /\ Len(merged) = 2
    /\ \A p \in 1..2 :
          /\ merged[p].tag = "replace"
          /\ merged[p].i2 = merged[p].i1 + 1
          /\ merged[p].j2 = merged[p].j1 + 1

\* The number of unchanged tokens between the two.
UnchangedBetween == merged[2].i1 - merged[1].i2

\* One block and one comment across one unchanged token, two across more.
C3_Threshold ==
    (pc = "render" /\ TwoSingleReplacements) =>
        /\ UnchangedBetween = merged[2].j1 - merged[1].j2
        /\ UnchangedBetween = 1 => Len(merged_blocks) = 1
        /\ UnchangedBetween >= 2 => Len(merged_blocks) = 2
        /\ bi = Len(merged_blocks) => Len(comments) = Len(merged_blocks)

\* One step of the merge loop: block holds the bounds of the opcodes merged so
\* far, and the next opcode is merged exactly when the condition holds.
C3_MergeRule ==
    (pc = "merge" /\ k < Len(merged)) =>
        LET m == At(merged, k)
        IN  /\ block.i2 = At(merged, k - 1).i2
            /\ block.j2 = At(merged, k - 1).j2
            /\ (m.i1 <= block.i2 + 1 /\ m.j1 <= block.j2 + 1)
                  <=> (merged_blocks' = merged_blocks /\ block'.i1 = block.i1)
            /\ ~(m.i1 <= block.i2 + 1 /\ m.j1 <= block.j2 + 1)
                  <=> (merged_blocks' = Append(merged_blocks, block) /\ block' = m)

(* C3: when the retained opcodes of a line pair are two replacements of    *)
(* one token each, they end in one block and one comment if one unchanged  *)
(* token lies between them and in two if two or more do; and every step of *)
(* the merge loop merges exactly when next.i1 <= block.i2 + 1 and          *)
(* next.j1 <= block.j2 + 1 for the block as merged so far.                 *)
C3_MergingThreshold == [](C3_Threshold) /\ [][C3_MergeRule]_vars

\* Two replacements around one unchanged token, merged into one block.
C3_Witness ==
    /\ pc = "render" /\ bi = 1
    /\ TwoSingleReplacements
    /\ UnchangedBetween = 1
    /\ Len(merged_blocks) = 1 /\ Len(comments) = 1

(* C4: the unescaped pattern of every comment is the single-space join of  *)
(* line1[max(i1 - 1, 0) : min(i2 + 1, len(line1))] for its block.          *)
C4_PatternIsContextSpan ==
    pc = "render" =>
        \A n \in 1..bi :
            LET b == merged_blocks[n]
            IN  Unescape(CommentOfBlock(n).pattern) =
                    Join(Space, PySlice(line1, Max(b.i1 - 1, 0), Min(b.i2 + 1, Len(line1))))

(* C7: get_diffs raises nothing on any input and returns after the last    *)
(* line pair; merged[0] is read only from a non-empty list, and            *)
(* line1[i1 - 1] and line1[i2] are read only at indices inside line1.      *)
C7_Total ==
    /\ err = ""
    /\ pc \in {"tokenize", "zip", "opcodes", "check", "merge", "render", "done"}
    /\ pc = "done" => idx = Min(Len(lines1), Len(lines2))
    /\ pc = "merge" => merged # <<>>
    /\ pc = "render" =>
          \A n \in 1..Len(merged_blocks) :
              LET b == merged_blocks[n]
              IN  /\ b.i1 > 0 => (0 <= b.i1 - 1 /\ b.i1 - 1 < Len(line1))
                  /\ b.i2 < Len(line1) => 0 <= b.i2

\* A line that normalizes to no token, against a line with tokens.
C7_Witness ==
    /\ pc = "done"
    /\ lines1 = << <<>> >>
    /\ lines2 # << <<>> >> /\ lines2 # <<>>
    /\ Len(comments) = 1

-----------------------------------------------------------------------------
(* The opcodes of the current line pair.                                   *)

Opcodes == get_opcodes(line1, line2)

RECURSIVE LCS(_, _)
\* The length of a longest common subsequence.
LCS(a, b) ==
    IF a = <<>> \/ b = <<>> THEN 0
    ELSE IF Head(a) = Head(b) THEN 1 + LCS(Tail(a), Tail(b))
    ELSE Max(LCS(Tail(a), b), LCS(a, Tail(b)))

RECURSIVE EqualTotal(_)
\* The number of tokens in the regions tagged equal.
EqualTotal(ops) ==
    IF ops = <<>> THEN 0
    ELSE (IF Head(ops).tag = "equal" THEN Head(ops).i2 - Head(ops).i1 ELSE 0)
         + EqualTotal(Tail(ops))

\* The opcodes tile both sequences from (0, 0) to (len(a), len(b)), in order.
Covers(ops, a, b) ==
    /\ ops = <<>> <=> (a = <<>> /\ b = <<>>)
    /\ ops # <<>> =>
          /\ ops[1].i1 = 0 /\ ops[1].j1 = 0
          /\ ops[Len(ops)].i2 = Len(a) /\ ops[Len(ops)].j2 = Len(b)
          /\ \A p \in 1..(Len(ops) - 1) :
                ops[p].i2 = ops[p + 1].i1 /\ ops[p].j2 = ops[p + 1].j1
    /\ \A p \in 1..Len(ops) : ops[p].i1 <= ops[p].i2 /\ ops[p].j1 <= ops[p].j2

C9_Idempotent == pc = "cleaned" => twice = once

\* Opcode m lies within the bounds of block b.
Inside(m, b) == b.i1 <= m.i1 /\ m.i2 <= b.i2 /\ b.j1 <= m.j1 /\ m.j2 <= b.j2

\* The blocks are ordered and disjoint, each opcode seen so far lies in exactly
\* one, and the comments of the rendered blocks are the last ones appended.
C10_Blocks ==
    /\ pc \in {"merge", "render"} =>
          /\ \A n \in 1..(Len(BlocksSoFar) - 1) :
                /\ BlocksSoFar[n].i1 < BlocksSoFar[n + 1].i1
                /\ BlocksSoFar[n].i2 < BlocksSoFar[n + 1].i1
          /\ \A n \in 1..Len(BlocksSoFar) : BlocksSoFar[n].i1 <= BlocksSoFar[n].i2
          /\ \A p \in 1..(IF pc = "merge" THEN k ELSE Len(merged)) :
                Cardinality({n \in 1..Len(BlocksSoFar) : Inside(merged[p], BlocksSoFar[n])}) = 1
    /\ pc = "render" =>
          /\ bi <= Len(merged_blocks)
          /\ Len(comments) >= bi
          /\ \A n \in 1..bi : CommentOfBlock(n) = CommentOf(merged_blocks[n], line1)

\* comments grows by the comment of block bi and in no other way, the pairs
\* are taken in order, and rendering ends only after the last block.
C10_Emit ==
    /\ idx' >= idx
    /\ comments' # comments =>
          /\ pc = "tokenize"
             \/ /\ pc = "render" /\ pc' = "render"
                /\ bi' = bi + 1
                /\ comments' = Append(comments, CommentOf(At(merged_blocks, bi), line1))
    /\ (pc = "render" /\ pc' # "render") => (bi = Len(merged_blocks) /\ pc' = "zip")

(* C10: the blocks of a line pair have strictly increasing i1 and disjoint *)
(* i-ranges, every retained opcode lies inside exactly one block, and one  *)
(* comment is appended per block, in block order, pair after pair.         *)
C10_BlockOrdering == [](C10_Blocks) /\ [][C10_Emit]_vars

\* Two blocks, the first of them merged from two opcodes, both rendered.
C10_Witness ==
    /\ pc = "render" /\ bi = 2
    /\ Len(merged_blocks) = 2
    /\ Len(merged) = 3

====
